---- MODULE Spec2Model ----
(***************************************************************************)
(* Constraint layer of the finite-domain CSP solver (constraints.py):      *)
(* TableConstraint, QueensConstraint, QueensTableConstraint,               *)
(* NeqConstraint, AllDiffConstraint, NValuesConstraint, coverAllFlight and *)
(* the support-search engine findvals / findvals_.                         *)
(*                                                                         *)
(* One constraint object (self) lives over a pool of variables.  The       *)
(* solver assigns / unassigns variables and prunes / restores current      *)
(* domains; check() and hasSupport(var, val) are called on the constraint. *)
(* hasSupport of the search-backed kinds runs findvals_ step by step with  *)
(* an explicit call stack.                                                 *)
(***************************************************************************)
EXTENDS Integers, Sequences, FiniteSets, TLC

\* ---------------------------------------------------------------- bounds
\* largest value of a variable's domain
MaxVal == 2
\* number of variables in the solver's pool
NVars == 3
\* how far the solver moves the pool away from its initial state
\* (number of pruned values plus number of assigned variables)
MaxChanges == 2

Values == 0..MaxVal
Vars == 1..NVars
\* Python's None: the value of an unassigned variable
None == 0 - 1

VARIABLES
    self,           \* the constraint object: kind, _scope and the kind's parameters
    curdom,         \* Variable._curdom: the unpruned values of each variable
    value,          \* Variable._value: assigned value, or None
    op,             \* the last operation called on the constraint
    callVar,        \* hasSupport's argument var
    callVal,        \* hasSupport's argument val
    result,         \* what the last operation returned ("None" while running)
    pc,             \* "idle", or "run" while findvals_ is executing
    remainingVars,  \* findvals' list remainingVars
    rvObj,          \* which list object remainingVars is: "copy" or "self" (the constraint's _scope)
    assignment,     \* findvals' list assignment: pairs <<var, val>>
    stack,          \* the findvals_ activations, outermost first
    nFinal,         \* finalTestfn evaluations in the current hasSupport call
    nPartial,       \* partialTestfn evaluations in the current hasSupport call
    nTrue           \* finalTestfn evaluations that returned True in the current call

vars == <<self, curdom, value, op, callVar, callVal, result, pc,
          remainingVars, rvObj, assignment, stack, nFinal, nPartial, nTrue>>

pool == <<curdom, value>>
call == <<op, callVar, callVal, result>>
engine == <<pc, remainingVars, rvObj, assignment, stack, nFinal, nPartial, nTrue>>

\* ------------------------------------------------------------ sequences
Range(s) == {s[k] : k \in DOMAIN s}
Last(s) == s[Len(s)]
Front(s) == SubSeq(s, 1, Len(s) - 1)
B(b) == IF b THEN "True" ELSE "False"

\* list.index(x): position of the first occurrence
IndexOf(s, x) == CHOOSE k \in DOMAIN s : s[k] = x /\ \A m \in 1..(k - 1) : s[m] # x

\* list.remove(x): drops the first occurrence
Remove(s, x) ==
    LET k == IndexOf(s, x)
    IN  SubSeq(s, 1, k - 1) \o SubSeq(s, k + 1, Len(s))

\* ------------------------------------------------- the Variable contract
\* variable v's full domain is (v-1)..MaxVal, in ascending order: the
\* variables of the pool have domains of different sizes
domain(v) == [k \in 1..(MaxVal + 2 - v) |-> k + v - 2]
isAssigned(v) == value[v] # None
getValue(v) == value[v]
curDomain(v) ==
    IF isAssigned(v) THEN <<value[v]>>
    ELSE SelectSeq(domain(v), LAMBDA x : x \in curdom[v])
curDomainSize(v) == IF isAssigned(v) THEN 1 ELSE Cardinality(curdom[v])
inCurDomain(v, x) == IF isAssigned(v) THEN x = value[v] ELSE x \in curdom[v]

\* Constraint.scope(): a fresh list holding the scope's variables
scopeCopy(c) == [obj |-> "copy", items |-> c.scope]

\* ---------------------------------------------------------- constructors
NoConstraint ==
    [kind |-> "none", scope |-> <<>>, satAssignments |-> <<>>, i |-> 0, j |-> 0,
     required |-> <<>>, lb |-> 0, ub |-> 0, values |-> <<>>]

\* Constraint.__init__(self, name, scope)
Constraint(kind, scope) == [NoConstraint EXCEPT !.kind = kind, !.scope = scope]

TableConstraint(scope, satisfyingAssignments) ==
    [Constraint("Table", scope) EXCEPT !.satAssignments = satisfyingAssignments]

QueensConstraint(qi, qj, i, j) ==
    [Constraint("Queens", <<qi, qj>>) EXCEPT !.i = i, !.j = j]

Abs(x) == IF x < 0 THEN 0 - x ELSE x

\* QueensTableConstraint.satisfyingAssignments: the nested loops over
\* qi.domain() and qj.domain(), appending in loop order
RECURSIVE satisfyingAssignmentsFrom(_, _, _, _, _, _)
satisfyingAssignmentsFrom(qi, qj, i, j, a, b) ==
    IF a > Len(domain(qi)) THEN <<>>
    ELSE IF b > Len(domain(qj)) THEN satisfyingAssignmentsFrom(qi, qj, i, j, a + 1, 1)
    ELSE LET col_i == domain(qi)[a]
             col_j == domain(qj)[b]
             rest == satisfyingAssignmentsFrom(qi, qj, i, j, a, b + 1)
         IN  IF col_i # col_j /\ Abs(i - j) # Abs(col_i - col_j)
             THEN <<<<col_i, col_j>>>> \o rest
             ELSE rest

satisfyingAssignments(qi, qj, i, j) == satisfyingAssignmentsFrom(qi, qj, i, j, 1, 1)

QueensTableConstraint(qi, qj, i, j) ==
    [TableConstraint(<<qi, qj>>, satisfyingAssignments(qi, qj, i, j))
        EXCEPT !.kind = "QueensTable", !.i = i, !.j = j]

\* NeqConstraint.__init__: a scope of the wrong length is reported by a
\* print statement, and the object is built all the same
NeqConstraint(scope) == Constraint("Neq", scope)

AllDiffConstraint(scope) == Constraint("AllDiff", scope)

NValuesConstraint(scope, required_values, lower_bound, upper_bound) ==
    [Constraint("NValues", scope)
        EXCEPT !.required = required_values, !.lb = lower_bound, !.ub = upper_bound]

coverAllFlight(scope, values) ==
    [Constraint("coverAllFlight", scope) EXCEPT !.values = values]

\* ------------------------------------------------------- TableConstraint
\* check(): collect the assigned values in scope order, True at the first
\* unassigned variable, else membership in satAssignments
RECURSIVE TableCheckFrom(_, _, _)
TableCheckFrom(c, k, assignments) ==
    IF k > Len(c.scope) THEN assignments \in Range(c.satAssignments)
    ELSE IF isAssigned(c.scope[k])
         THEN TableCheckFrom(c, k + 1, Append(assignments, getValue(c.scope[k])))
         ELSE TRUE

TableCheck(c) == TableCheckFrom(c, 1, <<>>)

\* the inner loop of hasSupport: found stays True unless a position other
\* than vindex holds a value outside that variable's current domain
TupleInCurDomains_own(c, a, vindex) ==
    \A k \in DOMAIN c.scope : inCurDomain(c.scope[k], a[k])

TupleInCurDomains(c, a, vindex) ==
    \A k \in DOMAIN c.scope : k = vindex \/ inCurDomain(c.scope[k], a[k])

\* the outer loop of hasSupport over satAssignments, from tuple t on
RECURSIVE TableScanFrom(_, _, _, _)
TableScanFrom(c, vindex, val, t) ==
    IF t > Len(c.satAssignments) THEN FALSE
    ELSE LET a == c.satAssignments[t]
         IN  IF a[vindex] # val THEN TableScanFrom(c, vindex, val, t + 1)
             ELSE IF TupleInCurDomains(c, a, vindex) THEN TRUE
             ELSE TableScanFrom(c, vindex, val, t + 1)

TableHasSupport(c, var, val) ==
    IF var \notin Range(c.scope) THEN TRUE
    ELSE TableScanFrom(c, IndexOf(c.scope, var), val, 1)

\* ------------------------------------------------------ QueensConstraint
queensCheck_diagOnly(c, vali, valj) ==
    Abs(vali - valj) # Abs(c.i - c.j)

queensCheck(c, vali, valj) ==
    LET diag == Abs(vali - valj) = Abs(c.i - c.j)
    IN  ~diag /\ vali # valj

QueensCheck(c) ==
    LET qi == c.scope[1]
        qj == c.scope[2]
    IN  IF ~isAssigned(qi) \/ ~isAssigned(qj) THEN TRUE
        ELSE queensCheck(c, getValue(qi), getValue(qj))

RECURSIVE QueensScanFrom(_, _, _, _)
QueensScanFrom(c, otherVar, val, k) ==
    IF k > Len(curDomain(otherVar)) THEN FALSE
    ELSE IF queensCheck(c, val, curDomain(otherVar)[k]) THEN TRUE
    ELSE QueensScanFrom(c, otherVar, val, k + 1)

QueensHasSupport(c, var, val) ==
    IF var \notin Range(c.scope) THEN TRUE
    ELSE LET otherVar == IF c.scope[1] = var THEN c.scope[2] ELSE c.scope[1]
         IN  QueensScanFrom(c, otherVar, val, 1)

\* --------------------------------------------------------- NeqConstraint
\* scope()[1] on a scope of length 1 raises IndexError
NeqCheck(c) ==
    IF Len(c.scope) < 2 THEN "IndexError"
    ELSE LET v0 == c.scope[1]
             v1 == c.scope[2]
         IN  IF ~isAssigned(v0) \/ ~isAssigned(v1) THEN "True"
             ELSE B(getValue(v0) # getValue(v1))

RECURSIVE NeqScanFrom(_, _, _)
NeqScanFrom(otherVar, val, k) ==
    IF k > Len(curDomain(otherVar)) THEN FALSE
    ELSE IF val # curDomain(otherVar)[k] THEN TRUE
    ELSE NeqScanFrom(otherVar, val, k + 1)

NeqHasSupport_noGuard(c, var, val) ==
    IF c.scope[1] = var
    THEN (IF Len(c.scope) < 2 THEN "IndexError" ELSE B(NeqScanFrom(c.scope[2], val, 1)))
    ELSE B(NeqScanFrom(c.scope[1], val, 1))

NeqHasSupport(c, var, val) ==
    IF var \notin Range(c.scope) THEN "True"
    ELSE IF c.scope[1] = var
         THEN (IF Len(c.scope) < 2 THEN "IndexError"
               ELSE B(NeqScanFrom(c.scope[2], val, 1)))
         ELSE B(NeqScanFrom(c.scope[1], val, 1))

\* ----------------------------------------------------- AllDiffConstraint
\* the values of a list of pairs <<var, val>>
Vals(l) == [k \in DOMAIN l |-> l[k][2]]

RECURSIVE AllDiffCheckFrom(_, _, _)
AllDiffCheckFrom(c, k, assignments) ==
    IF k > Len(c.scope) THEN Cardinality(Range(assignments)) = Len(assignments)
    ELSE IF isAssigned(c.scope[k])
         THEN AllDiffCheckFrom(c, k + 1, Append(assignments, getValue(c.scope[k])))
         ELSE TRUE

AllDiffCheck(c) == AllDiffCheckFrom(c, 1, <<>>)

valsNotEqual(c, l) == Cardinality(Range(Vals(l))) = Len(Vals(l))

\* ----------------------------------------------------- NValuesConstraint
RECURSIVE NValuesCheckFrom(_, _, _)
NValuesCheckFrom(c, k, sum) ==
    IF k > Len(c.scope) THEN c.lb <= sum /\ sum <= c.ub
    ELSE IF isAssigned(c.scope[k])
         THEN NValuesCheckFrom(c, k + 1,
                  IF getValue(c.scope[k]) \in Range(c.required) THEN sum + 1 ELSE sum)
         ELSE TRUE

NValuesCheck_strictLb(c) ==
    \/ \E k \in DOMAIN c.scope : ~isAssigned(c.scope[k])
    \/ LET sum == Cardinality({k \in DOMAIN c.scope : value[c.scope[k]] \in Range(c.required)})
       IN  c.lb < sum /\ sum <= c.ub

NValuesCheck(c) == NValuesCheckFrom(c, 1, 0)

\* the counting loop shared by satisfying_lb_ub and satisfying_ub
RECURSIVE CountRequired(_, _)
CountRequired(c, l) ==
    IF l = <<>> THEN 0
    ELSE CountRequired(c, Front(l)) + (IF Last(l)[2] \in Range(c.required) THEN 1 ELSE 0)

satisfying_lb_ub(c, l) ==
    LET sum == CountRequired(c, l) IN c.lb <= sum /\ sum <= c.ub

satisfying_ub_strict(c, l) == CountRequired(c, l) < c.ub

satisfying_ub_final(c, l) == satisfying_lb_ub(c, l)

satisfying_ub(c, l) == CountRequired(c, l) <= c.ub

\* -------------------------------------------------------- coverAllFlight
\* the dict of occurrence counts of the non-zero values of a list of values
FlightCounts(vs) ==
    [f \in Range(vs) \ {0} |-> Cardinality({k \in DOMAIN vs : vs[k] = f})]

CoverTest(c, vs) ==
    LET flights == FlightCounts(vs)
    IN  IF Cardinality(DOMAIN flights) < Cardinality(Range(c.values)) THEN FALSE
        ELSE IF \E f \in DOMAIN flights : flights[f] > 1 THEN FALSE
        ELSE TRUE

coverAllFlightCheck(c) ==
    IF \E k \in DOMAIN c.scope : ~isAssigned(c.scope[k]) THEN TRUE
    ELSE CoverTest(c, [k \in DOMAIN c.scope |-> getValue(c.scope[k])])

cover_all_flights(c, l) == CoverTest(c, Vals(l))

could_cover_all(c, l) == Cardinality(Range(c.scope)) >= Cardinality(Range(c.values))

\* ------------------------------------------------------------- dispatch
UsesFindvals(c) == c.kind \in {"AllDiff", "NValues", "coverAllFlight"}

check(c) ==
    CASE c.kind \in {"Table", "QueensTable"} -> B(TableCheck(c))
      [] c.kind = "Queens" -> B(QueensCheck(c))
      [] c.kind = "Neq" -> NeqCheck(c)
      [] c.kind = "AllDiff" -> B(AllDiffCheck(c))
      [] c.kind = "NValues" -> B(NValuesCheck(c))
      [] c.kind = "coverAllFlight" -> B(coverAllFlightCheck(c))

\* hasSupport of the kinds that answer without findvals
hasSupportDirect(c, var, val) ==
    CASE c.kind \in {"Table", "QueensTable"} -> B(TableHasSupport(c, var, val))
      [] c.kind = "Queens" -> B(QueensHasSupport(c, var, val))
      [] c.kind = "Neq" -> NeqHasSupport(c, var, val)

finalTestfn(c, l) ==
    CASE c.kind = "AllDiff" -> valsNotEqual(c, l)
      [] c.kind = "NValues" -> satisfying_lb_ub(c, l)
      [] c.kind = "coverAllFlight" -> cover_all_flights(c, l)

partialTestfn(c, l) ==
    CASE c.kind = "AllDiff" -> valsNotEqual(c, l)
      [] c.kind = "NValues" -> satisfying_ub(c, l)
      [] c.kind = "coverAllFlight" -> could_cover_all(c, l)

\* -------------------------------------------------------------- findvals
\* list.sort(reverse=True, key=curDomainSize): stable, largest current
\* domain first, so that pop() takes a variable of smallest current domain
RECURSIVE InsertDesc(_, _)
InsertDesc(s, x) ==
    IF s = <<>> THEN <<x>>
    ELSE IF curDomainSize(Last(s)) >= curDomainSize(x) THEN Append(s, x)
    ELSE Append(InsertDesc(Front(s), x), Last(s))

RECURSIVE SortDescFrom(_, _)
SortDescFrom(s, k) ==
    IF k = 0 THEN <<>> ELSE InsertDesc(SortDescFrom(s, k - 1), s[k])

RECURSIVE InsertAsc(_, _)
InsertAsc(s, x) ==
    IF s = <<>> THEN <<x>>
    ELSE IF curDomainSize(Last(s)) <= curDomainSize(x) THEN Append(s, x)
    ELSE Append(InsertAsc(Front(s), x), Last(s))

RECURSIVE SortAscFrom(_, _)
SortAscFrom(s, k) ==
    IF k = 0 THEN <<>> ELSE InsertAsc(SortAscFrom(s, k - 1), s[k])

sort_ascending(s) == SortAscFrom(s, Len(s))

sort(s) == SortDescFrom(s, Len(s))

\* varsToAssign = self.scope()
varsToAssign_alias(c) == [obj |-> "self", items |-> c.scope]

varsToAssign(c) == scopeCopy(c)

\* remainingVars.append(var) when every value of var has failed
reappend_missing(rv, var) == rv

reappend(rv, var) == Append(rv, var)

\* if findvals_(remainingVars, assignment, finalTestfn, partialTestfn):
\* whether the recursive call, activation f, has returned True
succeeded_ignored(f) == FALSE

succeeded(f) == f.ret

\* an activation of findvals_: st is "enter" before the first statement,
\* "loop" inside the for loop over var.curDomain() and "returned" once it
\* has returned ret; rem0 and asg0 are the two lists as they were on entry
Frame(rem, asg) ==
    [st |-> "enter", var |-> 0, idx |-> 0, ret |-> FALSE, rem0 |-> rem, asg0 |-> asg]

Top == stack[Len(stack)]
SetTop(f) == [stack EXCEPT ![Len(stack)] = f]

\* a write to the list remainingVars; it is a write to the constraint's
\* _scope when the two are the same list object
WriteRemaining(obj, items) ==
    /\ remainingVars' = items
    /\ self' = IF obj = "self" THEN [self EXCEPT !.scope = items] ELSE self

\* ------------------------------------------------------------------ Init
Init ==
    /\ self = NoConstraint
    /\ curdom = [v \in Vars |-> Range(domain(v))]
    /\ value = [v \in Vars |-> None]
    /\ op = "none"
    /\ callVar = 0
    /\ callVal = None
    /\ result = "None"
    /\ pc = "idle"
    /\ remainingVars = <<>>
    /\ rvObj = "copy"
    /\ assignment = <<>>
    /\ stack = <<>>
    /\ nFinal = 0
    /\ nPartial = 0
    /\ nTrue = 0

\* ----------------------------------------------- construction-time inputs
TableArgs ==
    { [scope |-> <<1, 2>>, sat |-> << <<0, 1>>, <<1, 2>>, <<1, 1>> >>],
      [scope |-> <<3, 1>>, sat |-> << <<2, 2>>, <<2, 0>> >>],
      [scope |-> <<2, 3, 1>>, sat |-> << <<1, 2, 0>>, <<2, 2, 1>>, <<1, 2, 2>> >>] }

QueensArgs ==
    { [qi |-> 1, qj |-> 2, i |-> 1, j |-> 2],
      [qi |-> 3, qj |-> 1, i |-> 3, j |-> 1] }

NeqScopes == { <<1, 2>>, <<3, 1>>, <<2>>, <<1, 2, 3>> }

AllDiffScopes == { <<2, 3, 1>>, <<1, 2>> }

NValuesArgs ==
    { [scope |-> <<3, 1, 2>>, required |-> <<2>>, lb |-> 1, ub |-> 1],
      [scope |-> <<2, 1>>, required |-> <<1, 2>>, lb |-> 2, ub |-> 2] }

CoverArgs ==
    { [scope |-> <<1, 2, 3>>, values |-> <<1, 2>>],
      [scope |-> <<3, 1>>, values |-> <<1>>] }

New(c) ==
    /\ self.kind = "none"
    /\ self' = c
    /\ UNCHANGED <<pool, call, engine>>

NewTable == \E a \in TableArgs : New(TableConstraint(a.scope, a.sat))
NewQueens == \E a \in QueensArgs : New(QueensConstraint(a.qi, a.qj, a.i, a.j))
NewQueensTable == \E a \in QueensArgs : New(QueensTableConstraint(a.qi, a.qj, a.i, a.j))
NewNeq == \E sc \in NeqScopes : New(NeqConstraint(sc))
NewAllDiff == \E sc \in AllDiffScopes : New(AllDiffConstraint(sc))
NewNValues ==
    \E a \in NValuesArgs : New(NValuesConstraint(a.scope, a.required, a.lb, a.ub))
NewCoverAllFlight == \E a \in CoverArgs : New(coverAllFlight(a.scope, a.values))

\* ------------------------------------------------------------ the solver
\* The solver's moves are modelled on the variables of the constraint's
\* scope: no method of a constraint reads a variable outside its scope.
\* The solver moves between calls, once it has taken a call's answer.
Changes ==
    Cardinality({p \in Vars \X Values : p[2] \in Range(domain(p[1])) \ curdom[p[1]]})
        + Cardinality({v \in Vars : isAssigned(v)})

SolverMay == self.kind # "none" /\ pc = "idle" /\ op = "none"

\* the caller takes the answer of check() or hasSupport()
Resume ==
    /\ pc = "idle"
    /\ op # "none"
    /\ op' = "none"
    /\ callVar' = 0
    /\ callVal' = None
    /\ result' = "None"
    /\ nFinal' = 0
    /\ nPartial' = 0
    /\ nTrue' = 0
    /\ UNCHANGED <<self, pool, pc, remainingVars, rvObj, assignment, stack>>

setValue ==
    /\ SolverMay
    /\ Changes < MaxChanges
    /\ \E v \in Range(self.scope) :
          /\ ~isAssigned(v)
          /\ \E x \in Range(domain(v)) : value' = [value EXCEPT ![v] = x]
    /\ UNCHANGED <<self, curdom, call, engine>>

unAssign ==
    /\ SolverMay
    /\ \E v \in Range(self.scope) :
          /\ isAssigned(v)
          /\ value' = [value EXCEPT ![v] = None]
    /\ UNCHANGED <<self, curdom, call, engine>>

pruneValue ==
    /\ SolverMay
    /\ Changes < MaxChanges
    /\ \E v \in Range(self.scope) :
          \E x \in curdom[v] : curdom' = [curdom EXCEPT ![v] = @ \ {x}]
    /\ UNCHANGED <<self, value, call, engine>>

restoreValue ==
    /\ SolverMay
    /\ \E v \in Range(self.scope) :
          \E x \in Range(domain(v)) \ curdom[v] :
              curdom' = [curdom EXCEPT ![v] = @ \cup {x}]
    /\ UNCHANGED <<self, value, call, engine>>

\* ----------------------------------------------------------------- calls
Check ==
    /\ self.kind # "none"
    /\ pc = "idle"
    /\ op = "none"
    /\ op' = "check"
    /\ callVar' = 0
    /\ callVal' = None
    /\ result' = check(self)
    /\ nFinal' = 0
    /\ nPartial' = 0
    /\ nTrue' = 0
    /\ UNCHANGED <<self, pool, pc, remainingVars, rvObj, assignment, stack>>

\* hasSupport of Table, Queens, QueensTable and Neq, and of every kind
\* when var is not in the scope
HasSupportReturn(var, val) ==
    /\ self.kind # "none"
    /\ pc = "idle"
    /\ op = "none"
    /\ ~UsesFindvals(self) \/ var \notin Range(scopeCopy(self).items)
    /\ op' = "hasSupport"
    /\ callVar' = var
    /\ callVal' = val
    /\ result' = IF UsesFindvals(self) THEN "True" ELSE hasSupportDirect(self, var, val)
    /\ nFinal' = 0
    /\ nPartial' = 0
    /\ nTrue' = 0
    /\ UNCHANGED <<self, pool, pc, remainingVars, rvObj, assignment, stack>>

\* hasSupport of AllDiff, NValues and coverAllFlight up to the first
\* findvals_ activation: scope(), remove(var), the sort of findvals
HasSupportFindvals(var, val) ==
    /\ pc = "idle"
    /\ op = "none"
    /\ UsesFindvals(self)
    /\ var \in Range(scopeCopy(self).items)
    /\ LET vta == varsToAssign(self)
           rem == sort(Remove(vta.items, var))
       IN  /\ rvObj' = vta.obj
           /\ WriteRemaining(vta.obj, rem)
           /\ assignment' = << <<var, val>> >>
           /\ stack' = << Frame(rem, << <<var, val>> >>) >>
    /\ pc' = "run"
    /\ op' = "hasSupport"
    /\ callVar' = var
    /\ callVal' = val
    /\ result' = "None"
    /\ nFinal' = 0
    /\ nPartial' = 0
    /\ nTrue' = 0
    /\ UNCHANGED pool

HasSupport == \E var \in Vars, val \in Values :
    HasSupportReturn(var, val) \/ HasSupportFindvals(var, val)

\* ------------------------------------------------------------- findvals_
\* if len(remainingVars) == 0: return finalTestfn(assignment)
FvFinal ==
    /\ pc = "run"
    /\ Top.st = "enter"
    /\ remainingVars = <<>>
    /\ stack' = SetTop([Top EXCEPT !.st = "returned", !.ret = finalTestfn(self, assignment)])
    /\ nFinal' = nFinal + 1
    /\ nTrue' = IF finalTestfn(self, assignment) THEN nTrue + 1 ELSE nTrue
    /\ UNCHANGED <<self, pool, call, pc, remainingVars, rvObj, assignment, nPartial>>

\* var = remainingVars.pop()
FvPop ==
    /\ pc = "run"
    /\ Top.st = "enter"
    /\ remainingVars # <<>>
    /\ stack' = SetTop([Top EXCEPT !.st = "loop", !.var = Last(remainingVars), !.idx = 1])
    /\ WriteRemaining(rvObj, Front(remainingVars))
    /\ UNCHANGED <<pool, call, pc, rvObj, assignment, nFinal, nPartial, nTrue>>

\* one iteration of the for loop up to the recursive call: append the pair,
\* evaluate partialTestfn, and either call findvals_ or pop the pair
FvTry ==
    /\ pc = "run"
    /\ Top.st = "loop"
    /\ Top.idx <= Len(curDomain(Top.var))
    /\ LET asg == Append(assignment, <<Top.var, curDomain(Top.var)[Top.idx]>>)
       IN  IF partialTestfn(self, asg)
           THEN /\ assignment' = asg
                /\ stack' = Append(stack, Frame(remainingVars, asg))
           ELSE /\ assignment' = assignment
                /\ stack' = SetTop([Top EXCEPT !.idx = @ + 1])
    /\ nPartial' = nPartial + 1
    /\ UNCHANGED <<self, pool, call, pc, remainingVars, rvObj, nFinal, nTrue>>

\* the recursive call has returned: return True at once, or pop the pair
\* and go on with the next value
FvBack ==
    /\ pc = "run"
    /\ Len(stack) > 1
    /\ Top.st = "returned"
    /\ LET caller == stack[Len(stack) - 1]
           callers == SubSeq(stack, 1, Len(stack) - 2)
       IN  IF succeeded(Top)
           THEN /\ stack' = Append(callers, [caller EXCEPT !.st = "returned", !.ret = TRUE])
                /\ assignment' = assignment
           ELSE /\ stack' = Append(callers, [caller EXCEPT !.idx = @ + 1])
                /\ assignment' = Front(assignment)
    /\ UNCHANGED <<self, pool, call, pc, remainingVars, rvObj, nFinal, nPartial, nTrue>>

\* the for loop is over: remainingVars.append(var); return False
FvExhausted ==
    /\ pc = "run"
    /\ Top.st = "loop"
    /\ Top.idx > Len(curDomain(Top.var))
    /\ WriteRemaining(rvObj, reappend(remainingVars, Top.var))
    /\ stack' = SetTop([Top EXCEPT !.st = "returned", !.ret = FALSE])
    /\ UNCHANGED <<pool, call, pc, rvObj, assignment, nFinal, nPartial, nTrue>>

\* findvals returns to hasSupport, which returns x; the two lists die
FvDone ==
    /\ pc = "run"
    /\ Len(stack) = 1
    /\ Top.st = "returned"
    /\ result' = B(Top.ret)
    /\ pc' = "idle"
    /\ stack' = <<>>
    /\ remainingVars' = <<>>
    /\ assignment' = <<>>
    /\ rvObj' = "copy"
    /\ UNCHANGED <<self, pool, op, callVar, callVal, nFinal, nPartial, nTrue>>

Next ==
    \/ NewTable
    \/ NewQueens
    \/ NewQueensTable
    \/ NewNeq
    \/ NewAllDiff
    \/ NewNValues
    \/ NewCoverAllFlight
    \/ setValue
    \/ unAssign
    \/ pruneValue
    \/ restoreValue
    \/ Resume
    \/ Check
    \/ HasSupport
    \/ FvFinal
    \/ FvPop
    \/ FvTry
    \/ FvBack
    \/ FvExhausted
    \/ FvDone

Spec == Init /\ [][Next]_vars

\* ======================================================== the properties
ScopeVars == Range(self.scope)
\* the set of values of u's current domain
CurSet(u) == IF value[u] # None THEN {value[u]} ELSE curdom[u]
OtherVars(var) == ScopeVars \ {var}
AllAssigned == \A u \in ScopeVars : value[u] # None
\* the assigned values in scope order
Assigned == [k \in DOMAIN self.scope |-> value[self.scope[k]]]
\* a hasSupport call on a scope variable has returned
Returned == op = "hasSupport" /\ pc = "idle" /\ callVar \in ScopeVars

\* the full tuples with var = val whose other values come from the current
\* domains of the other scope variables
Extensions(var, val) ==
    {f \in [ScopeVars -> Values] :
        f[var] = val /\ \A u \in OtherVars(var) : f[u] \in CurSet(u)}

AllDiffHolds(f) == \A u, w \in ScopeVars : u # w => f[u] # f[w]

NValuesHolds(f) ==
    LET n == Cardinality({u \in ScopeVars : f[u] \in Range(self.required)})
    IN  self.lb <= n /\ n <= self.ub

\* C1: AllDiff and NValues: hasSupport(var, val) returns True exactly when
\* some choice of one value from the current domain of every other scope
\* variable, together with var = val, satisfies the constraint; it returns
\* False when another scope variable has an empty current domain.
C1_SupportIffExtension ==
    (Returned /\ self.kind \in {"AllDiff", "NValues"}) =>
        /\ result = B(\E f \in Extensions(callVar, callVal) :
                         IF self.kind = "AllDiff" THEN AllDiffHolds(f) ELSE NValuesHolds(f))
        /\ (\E u \in OtherVars(callVar) : CurSet(u) = {}) => result = "False"

C1_Witness ==
    /\ Returned
    /\ self.kind = "NValues"
    /\ Len(self.scope) = 3
    /\ result = "True"
    /\ nPartial > 2

\* how many scope variables hold the value x
Uses(x) == Cardinality({k \in DOMAIN self.scope : value[self.scope[k]] = x})

\* C2: coverAllFlight, every scope variable assigned: check() returns True
\* only if every target value is the value of exactly one scope variable,
\* and False if a target value is missing or a non-zero value is used twice.
C2_ExactCover ==
    (op = "check" /\ self.kind = "coverAllFlight" /\ AllAssigned) =>
        /\ result = "True" => \A x \in Range(self.values) : Uses(x) = 1
        /\ ((\E x \in Range(self.values) : Uses(x) = 0)
              \/ (\E x \in Values \ {0} : Uses(x) > 1)) => result = "False"

\* C3: a NeqConstraint whose scope is not of length 2 is rejected at
\* construction: no NeqConstraint object exists with such a scope.
C3_NeqScopeRejected == self.kind = "Neq" => Len(self.scope) = 2

\* C4: hasSupport has no side effect: no step of a hasSupport call changes
\* the constraint (its scope, in order, and its parameters) nor any
\* variable's current domain or assignment.
C4_HasSupportNoSideEffect ==
    [][op' = "hasSupport" => (self' = self /\ curdom' = curdom /\ value' = value)]_vars

C4_Witness ==
    /\ Returned
    /\ self.kind = "coverAllFlight"
    /\ Len(self.scope) = 3
    /\ nFinal > 0

\* C5: TableConstraint.hasSupport(var, val), var at scope index k, returns
\* True exactly when a stored tuple t has t[k] = val and every other t[i]
\* in the current domain of scope[i]; var's own current domain plays no part.
C5_TableSupport ==
    (Returned /\ self.kind = "Table") =>
        LET k == IndexOf(self.scope, callVar)
        IN  result = B(\E t \in Range(self.satAssignments) :
                          /\ t[k] = callVal
                          /\ \A m \in DOMAIN self.scope \ {k} : t[m] \in CurSet(self.scope[m]))

C5_Witness ==
    /\ Returned
    /\ self.kind = "Table"
    /\ callVal \notin CurSet(callVar)
    /\ result = "True"

\* the other constraint built from the same (qi, qj, i, j)
Twin(c) ==
    IF c.kind = "Queens"
    THEN QueensTableConstraint(c.scope[1], c.scope[2], c.i, c.j)
    ELSE QueensConstraint(c.scope[1], c.scope[2], c.i, c.j)

\* C6: the QueensTableConstraint's table is exactly the pairs (a, b) of
\* qi.domain() x qj.domain() with a # b and |a-b| # |i-j|, and a
\* QueensConstraint and a QueensTableConstraint built from the same
\* arguments return the same check() and the same hasSupport(var, val) for
\* every val of var's full domain, in every state of the two variables.
C6_TableEquivalent ==
    (self.kind \in {"Queens", "QueensTable"}) =>
        /\ self.kind = "QueensTable" =>
             Range(self.satAssignments)
                = {t \in Range(domain(self.scope[1])) \X Range(domain(self.scope[2])) :
                      t[1] # t[2] /\ Abs(t[1] - t[2]) # Abs(self.i - self.j)}
        /\ op = "check" => result = check(Twin(self))
        /\ (op = "hasSupport" /\ callVal \in Range(domain(callVar))) =>
             result = hasSupportDirect(Twin(self), callVar, callVal)

C6_Witness ==
    /\ Returned
    /\ self.kind = "QueensTable"
    /\ callVal \in Range(domain(callVar)) \ CurSet(callVar)
    /\ result = "True"

\* the assigned values jointly violate the constraint
Violated ==
    CASE self.kind = "Table" -> Assigned \notin Range(self.satAssignments)
      [] self.kind = "Queens" ->
            Assigned[1] = Assigned[2] \/ Abs(Assigned[1] - Assigned[2]) = Abs(self.i - self.j)
      [] self.kind = "Neq" -> Assigned[1] = Assigned[2]
      [] self.kind = "AllDiff" ->
            \E k, m \in DOMAIN self.scope : k # m /\ Assigned[k] = Assigned[m]
      [] self.kind = "NValues" ->
            LET n == Cardinality({k \in DOMAIN self.scope : Assigned[k] \in Range(self.required)})
            IN  n < self.lb \/ n > self.ub

C8_VacuousSupport ==
    (op = "hasSupport" /\ pc = "idle" /\ self.kind # "none" /\ callVar \notin ScopeVars) =>
        result = "True"

C8_Witness ==
    /\ op = "hasSupport"
    /\ pc = "idle"
    /\ self.kind = "Neq"
    /\ callVar \notin ScopeVars
    /\ \E u \in ScopeVars : CurSet(u) = {callVal}
    /\ result = "True"

\* the list holds exactly the variables of the set, each once
HoldsExactly(l, S) == Range(l) = S /\ Len(l) = Cardinality(S)

\* the two lists are as they were when activation k was entered (for the
\* outermost activation, the call of findvals: the scope without var, and
\* the single pair (var, val))
Restored(k) ==
    /\ HoldsExactly(remainingVars, Range(stack[k].rem0))
    /\ assignment = stack[k].asg0
    /\ k = 1 => /\ HoldsExactly(remainingVars, OtherVars(callVar))
                /\ assignment = << <<callVar, callVal>> >>

\* C9 as stated: whenever findvals or a recursive findvals_ call returns,
\* True or False, remainingVars holds exactly the variables it held on
\* entry and assignment is the partial assignment it was on entry.
C9_RestoredOnEveryReturn ==
    \A k \in DOMAIN stack : stack[k].st = "returned" => Restored(k)

\* C9 amended: a call that returns False has restored both lists; a call
\* that returns True has undone nothing: remainingVars is empty and
\* assignment is the entry assignment followed by one pair for each variable
\* that remained on entry.
C9_RestoredOnFalseReturn ==
    \A k \in DOMAIN stack : stack[k].st = "returned" =>
        IF stack[k].ret
        THEN /\ remainingVars = <<>>
             /\ SubSeq(assignment, 1, Len(stack[k].asg0)) = stack[k].asg0
             /\ Len(assignment) = Len(stack[k].asg0) + Len(stack[k].rem0)
             /\ {assignment[m][1] : m \in (Len(stack[k].asg0) + 1)..Len(assignment)}
                    = Range(stack[k].rem0)
        ELSE Restored(k)

C9_Witness ==
    /\ pc = "run"
    /\ Len(stack) = 2
    /\ Top.st = "returned"
    /\ ~Top.ret
    /\ Top.var # 0
    /\ Len(remainingVars) = 1

\* C10: fail-first: the variable an activation of findvals_ has popped has a
\* current domain no larger than that of any variable still in
\* remainingVars (so the variables are taken in nondecreasing order of
\* current-domain size), and when another scope variable has an empty
\* current domain the call returns False and finalTestfn is never evaluated.
C10_FailFirst ==
    /\ \A k \in DOMAIN stack : stack[k].var # 0 =>
          /\ \A u \in Range(remainingVars) : curDomainSize(stack[k].var) <= curDomainSize(u)
          /\ \A m \in DOMAIN stack :
                (k < m /\ stack[m].var # 0) =>
                    curDomainSize(stack[k].var) <= curDomainSize(stack[m].var)
    /\ (/\ op = "hasSupport"
        /\ UsesFindvals(self)
        /\ callVar \in ScopeVars
        /\ \E u \in OtherVars(callVar) : curDomainSize(u) = 0) =>
          /\ nFinal = 0
          /\ pc = "idle" => result = "False"

C10_Witness ==
    /\ pc = "run"
    /\ Len(stack) = 2
    /\ stack[2].var # 0
    /\ curDomainSize(stack[1].var) < curDomainSize(stack[2].var)
    /\ IndexOf(self.scope, stack[1].var) < IndexOf(self.scope, stack[2].var)

\* the list of pairs gives a value to every scope variable exactly once
CoversScopeOnce(l) ==
    /\ Len(l) = Len(self.scope)
    /\ \A u \in ScopeVars : Cardinality({k \in DOMAIN l : l[k][1] = u}) = 1

\* C11: first-solution short-circuit: once finalTestfn has returned True,
\* every step of the call is an enclosing activation returning True (at the
\* end, hasSupport returning True): no further value is tried and neither
\* test function is evaluated again, so finalTestfn returns True at most
\* once per call; and finalTestfn is only evaluated on assignments that give
\* a value to every scope variable exactly once.
C11_ShortCircuit ==
    /\ [](nTrue <= 1)
    /\ [][(pc = "run" /\ nTrue >= 1) =>
            /\ nFinal' = nFinal /\ nPartial' = nPartial /\ nTrue' = nTrue
            /\ Top.st = "returned" /\ Top.ret
            /\ IF pc' = "run"
               THEN /\ Len(stack') = Len(stack) - 1
                    /\ stack'[Len(stack')].st = "returned"
                    /\ stack'[Len(stack')].ret
                    /\ assignment' = assignment
               ELSE result' = "True"]_vars
    /\ [][nFinal' = nFinal + 1 => CoversScopeOnce(assignment)]_vars

C11_Witness ==
    /\ pc = "run"
    /\ nTrue = 1
    /\ Len(stack) = 1
    /\ Top.st = "returned"
    /\ Top.var # 0
    /\ Top.idx < Len(curDomain(Top.var))
    /\ Len(self.scope) = 3

\* how many pairs of the list hold a value of the required set
RequiredCount(l) == Cardinality({k \in DOMAIN l : l[k][2] \in Range(self.required)})

NValuesRunning == self.kind = "NValues" /\ pc = "run"

\* the assignment as extended by the current iteration of the for loop
Extended == Append(assignment, <<Top.var, curDomain(Top.var)[Top.idx]>>)

\* C12: NValuesConstraint.hasSupport: an extended partial assignment with
\* more than upper_bound required values is not recursed on, so finalTestfn
\* never sees an assignment extending it; an extended partial assignment
\* with at most upper_bound required values is always recursed on, also
\* when its count is below lower_bound.
C12_PruningAsymmetry ==
    /\ [](NValuesRunning =>
            \A k \in 2..Len(stack) : RequiredCount(stack[k].asg0) <= self.ub)
    /\ [][(NValuesRunning /\ nFinal' = nFinal + 1 /\ Len(stack) > 1) =>
            RequiredCount(assignment) <= self.ub]_vars
    /\ [][(NValuesRunning /\ nPartial' = nPartial + 1) =>
            IF RequiredCount(Extended) > self.ub
            THEN /\ Len(stack') = Len(stack)
                 /\ assignment' = assignment
                 /\ stack'[Len(stack')].idx = Top.idx + 1
            ELSE /\ Len(stack') = Len(stack) + 1
                 /\ assignment' = Extended
                 /\ stack'[Len(stack')].st = "enter"
                 /\ stack'[Len(stack')].asg0 = Extended]_vars

\* reached: a partial assignment over upper_bound has just been dropped
C12_Witness ==
    /\ NValuesRunning
    /\ Top.st = "loop"
    /\ Top.idx > 1
    /\ RequiredCount(Append(assignment, <<Top.var, curDomain(Top.var)[Top.idx - 1]>>)) > self.ub

\* reached: a partial assignment below lower_bound has been recursed on
C12_BelowLowerBoundKept ==
    /\ NValuesRunning
    /\ Len(stack) > 1
    /\ Len(Top.asg0) < Len(self.scope)
    /\ RequiredCount(Top.asg0) < self.lb

====
